---- MODULE Spec2Model ----
(***************************************************************************)
(* Model of the sneaker post generator's orchestration layer               *)
(* (api_handler.py): image search, per-channel text generation, render     *)
(* submission, render status polling and hosting upload, each one call to  *)
(* an external collaborator whose reply is drawn nondeterministically.     *)
(*                                                                         *)
(* Every function of api_handler.py is an operator that computes the       *)
(* function's outcome from the configured credentials, its arguments and   *)
(* the collaborator's reply.  An outcome is a record                       *)
(*   [outcome : "returned" | "raised", exc, value, calls]                  *)
(* where calls counts the collaborator calls the function made.            *)
(***************************************************************************)
EXTENDS Integers, Sequences, FiniteSets

VARIABLES
    creds,      \* the credentials found in the environment at import time
    jobs,       \* render provider: status of every job id
    uploads,    \* hosting provider: uploads received per job's rendered asset
    doneSeen,   \* per job: a status poll has returned done for it
    last        \* the last operation: its arguments, the reply, its outcome

vars == <<creds, jobs, uploads, doneSeen, last>>

----------------------------------------------------------------------------
\* Bounds of the model.

MaxChannels == 2
MaxImages == 2
MaxJobs == 1
MaxUploads == 2

----------------------------------------------------------------------------
\* Configuration read from the environment when the module is imported.

TextKey == "OPENAI_API_KEY"
SearchKey == "PEXELS_API_KEY"
RenderKey == "SHOTSTACK_API_KEY"
HostingKeys == {"CLOUDINARY_CLOUD_NAME", "CLOUDINARY_API_KEY", "CLOUDINARY_API_SECRET"}
Credentials == {TextKey, SearchKey, RenderKey} \cup HostingKeys

\* Python's exception classes, as far as the handlers tell them apart.
\* requests.JSONDecodeError (raised by response.json(), requests 2.27 and
\* later) is both a
\* RequestException and a json.JSONDecodeError.
RequestException == {"ConnectionError", "Timeout", "HTTPError", "requests.JSONDecodeError"}
JSONDecodeError == {"json.JSONDecodeError", "requests.JSONDecodeError"}

Returned(v, n) == [outcome |-> "returned", exc |-> "none", value |-> v, calls |-> n]
Raised(e, v, n) == [outcome |-> "raised", exc |-> e, value |-> v, calls |-> n]

\* The transport's part of one HTTP exchange: requests.post / requests.get
\* raise on a connection error or a timeout, raise_for_status() on a status
\* of 400 and above.
HttpError(reply) ==
    IF reply.net # "ok" THEN reply.net
    ELSE IF reply.code >= 400 THEN "HTTPError"
    ELSE "none"

----------------------------------------------------------------------------
\* 2. Text generation.

Names == {"test sneaker", "My Test Shoe"}
Channels == {"Instagram", "TikTok"}
Locales == {"greek", "english"}

\* The fallback variant; "X" stands for the cross-mark emoji of the source.
ErrorVariant ==
    [hook |-> "Error", caption |-> "Could not generate text.", hashtags |-> "", emojis |-> "X"]
ReplyVariant ==
    [greek |-> [hook |-> "Geia", caption |-> "Nea sneakers", hashtags |-> "#sneakers", emojis |-> "fire"],
     english |-> [hook |-> "Hello", caption |-> "New sneakers", hashtags |-> "#sneakers", emojis |-> "fire"]]

\* A JSON object the model's reply text may hold: its "platform" key (when
\* has_platform) and its locale keys.
NoObject == [has_platform |-> FALSE, platform |-> "", locales |-> <<>>]
ReplyObjects ==
    { [has_platform |-> FALSE, platform |-> "", locales |-> [l \in Locales |-> ReplyVariant[l]]],
      [has_platform |-> TRUE, platform |-> "Facebook", locales |-> [l \in Locales |-> ReplyVariant[l]]],
      [has_platform |-> FALSE, platform |-> "", locales |-> <<>>] }

\* The replies of the text-generation provider.  body is the shape of a 2xx
\* reply's payload: "not_json"; "no_choices" (an object without 'choices');
\* "empty_choices" ('choices' is []); "null_content" (the message's content
\* is null); "chat" (content is a string, described by text and object).
TextReplies ==
    { [net |-> n, code |-> 0, body |-> "none", text |-> "none", object |-> NoObject]
        : n \in {"ConnectionError", "Timeout"} }
    \cup { [net |-> "ok", code |-> 500, body |-> "none", text |-> "none", object |-> NoObject] }
    \cup { [net |-> "ok", code |-> 200, body |-> b, text |-> "none", object |-> NoObject]
        : b \in {"not_json", "no_choices", "empty_choices", "null_content"} }
    \cup { [net |-> "ok", code |-> 200, body |-> "chat", text |-> t, object |-> NoObject]
        : t \in {"garbage", "json_array"} }
    \cup { [net |-> "ok", code |-> 200, body |-> "chat", text |-> "json_object", object |-> o]
        : o \in ReplyObjects }

NoEntry == [platform |-> "", locales |-> <<>>]

\* response.json()['choices'][0]['message']['content']
ContentError(reply) ==
    CASE reply.body = "not_json" -> "requests.JSONDecodeError"
      [] reply.body = "no_choices" -> "KeyError"
      [] reply.body = "empty_choices" -> "IndexError"
      [] OTHER -> "none"

\* json.loads(content)
LoadsError(reply) ==
    CASE reply.body = "null_content" -> "TypeError"
      [] reply.text = "garbage" -> "json.JSONDecodeError"
      [] OTHER -> "none"

\* {"platform": platform, **json.loads(content)}: the keys of the parsed
\* object come last and win; unpacking something that is no mapping raises.
SpreadError(reply) == IF reply.text = "json_object" THEN "none" ELSE "TypeError"
Spread(platform, object) ==
    [platform |-> IF object.has_platform THEN object.platform ELSE platform,
     locales |-> object.locales]

\* The try block of generate_text_for_platform: the exception it ends with
\* ("none" when it returns) and the value it returns.
TextTry(platform, reply) ==
    LET e1 == HttpError(reply)
        e2 == ContentError(reply)
        e3 == LoadsError(reply)
        e4 == SpreadError(reply)
        e == IF e1 # "none" THEN e1 ELSE IF e2 # "none" THEN e2
             ELSE IF e3 # "none" THEN e3 ELSE e4
    IN  [exc |-> e,
         value |-> IF e = "none" THEN Spread(platform, reply.object) ELSE NoEntry]

TextCaught == RequestException \cup {"KeyError"} \cup JSONDecodeError

Fallback(platform) == [platform |-> platform, locales |-> [l \in Locales |-> ErrorVariant]]

generate_text_for_platform(cr, sneaker_name, platform, reply) ==
    IF TextKey \notin cr THEN Raised("ValueError", NoEntry, 0)
    ELSE LET t == TextTry(platform, reply)
         IN  IF t.exc = "none" THEN Returned(t.value, 1)
             ELSE IF t.exc \in TextCaught THEN Returned(Fallback(platform), 1)
             ELSE Raised(t.exc, NoEntry, 1)

\* The list comprehension of generate_all_texts: one call per channel, in
\* order; the first call that raises ends it.
RECURSIVE AllTextsFrom(_, _, _, _, _, _)
AllTextsFrom(cr, sneaker_name, platforms, replies, i, acc) ==
    IF i > Len(platforms) THEN Returned(acc, i - 1)
    ELSE LET r == generate_text_for_platform(cr, sneaker_name, platforms[i], replies[i])
         IN  IF r.outcome = "raised" THEN Raised(r.exc, <<>>, (i - 1) + r.calls)
             ELSE AllTextsFrom(cr, sneaker_name, platforms, replies, i + 1, Append(acc, r.value))

generate_all_texts(cr, sneaker_name, platforms, replies) ==
    AllTextsFrom(cr, sneaker_name, platforms, replies, 1, <<>>)

ChannelLists == UNION { [1..n -> Channels] : n \in 0..MaxChannels }

----------------------------------------------------------------------------
\* 1. Image search.

Images == {"img1.jpg", "img2.jpg"}
ImageLists == UNION { [1..n -> Images] : n \in 0..MaxImages }

\* The image-search provider: the client raises, or returns the photos found.
SearchReplies ==
    { [kind |-> "error", photos |-> <<>>] }
    \cup { [kind |-> "photos", photos |-> l] : l \in ImageLists }

search_images(cr, sneaker_name, reply) ==
    IF SearchKey \notin cr THEN Raised("ValueError", <<>>, 0)
    ELSE IF reply.kind = "error" THEN Returned(<<>>, 1)
    ELSE Returned(reply.photos, 1)

----------------------------------------------------------------------------
\* 3. Render submission.  Times are in ticks of half a time unit, the
\* resolution of the title's start (0.5).

TicksPerUnit == 2
ClipLength == 2
TitleStartTicks == 1
TitleLength == 3
NoJob == 0

JobIds == 1..MaxJobs

\* Mutant: the clip's start counts the clip itself.
ClipStartOffByOne(n) == (n + 1) * ClipLength * TicksPerUnit

\* "start": len(clips) * 2, with n the clips built so far.
ClipStart(n) == n * ClipLength * TicksPerUnit

RECURSIVE BuildClips(_, _)
BuildClips(image_urls, clips) ==
    IF Len(clips) = Len(image_urls) THEN clips
    ELSE BuildClips(image_urls,
            Append(clips, [src |-> image_urls[Len(clips) + 1],
                           start |-> ClipStart(Len(clips)),
                           length |-> ClipLength * TicksPerUnit]))

TitleClip(sneaker_name) ==
    [html |-> sneaker_name, start |-> TitleStartTicks, length |-> TitleLength * TicksPerUnit]

Timeline(sneaker_name, image_urls) ==
    [clips |-> BuildClips(image_urls, <<>>), titles |-> <<TitleClip(sneaker_name)>>]

NoTimeline == [clips |-> <<>>, titles |-> <<>>]

\* The render provider's reply to a submission.  body: "not_json";
\* "no_response" (no 'response' key); "no_id" ('response' has no 'id');
\* "job" (the id issued).
NoReply == [net |-> "none", code |-> 0, body |-> "none", id |-> NoJob]

RenderReplies(ids) ==
    { [net |-> n, code |-> 0, body |-> "none", id |-> NoJob] : n \in {"ConnectionError", "Timeout"} }
    \cup { [net |-> "ok", code |-> 500, body |-> "none", id |-> NoJob] }
    \cup { [net |-> "ok", code |-> 200, body |-> b, id |-> NoJob]
            : b \in {"not_json", "no_response", "no_id"} }
    \cup { [net |-> "ok", code |-> 201, body |-> "job", id |-> i] : i \in ids }

\* response.json()["response"]["id"]
RenderIdError(reply) ==
    CASE reply.body = "not_json" -> "requests.JSONDecodeError"
      [] reply.body \in {"no_response", "no_id"} -> "KeyError"
      [] OTHER -> "none"

SubmitTry(reply) ==
    LET e1 == HttpError(reply)
    IN  IF e1 # "none" THEN e1 ELSE RenderIdError(reply)

Sent(r, timeline) == [outcome |-> r.outcome, exc |-> r.exc, value |-> r.value,
                      calls |-> r.calls, sent |-> timeline]

Submit(sneaker_name, image_urls, reply) ==
    LET e == SubmitTry(reply)
        r == IF e = "none" THEN Returned(reply.id, 1)
             ELSE IF e \in RequestException THEN Returned(NoJob, 1)
             ELSE Raised(e, NoJob, 1)
    IN  Sent(r, Timeline(sneaker_name, image_urls))

\* Mutant: no guard on the empty image list.
create_video_unguarded(cr, sneaker_name, image_urls, reply) ==
    IF RenderKey \notin cr THEN Sent(Raised("ValueError", NoJob, 0), NoTimeline)
    ELSE Submit(sneaker_name, image_urls, reply)

\* Mutant: the empty image list is looked at before the credential.
create_video_empty_first(cr, sneaker_name, image_urls, reply) ==
    IF image_urls = <<>> THEN Sent(Returned(NoJob, 0), NoTimeline)
    ELSE IF RenderKey \notin cr THEN Sent(Raised("ValueError", NoJob, 0), NoTimeline)
    ELSE Submit(sneaker_name, image_urls, reply)

create_video(cr, sneaker_name, image_urls, reply) ==
    IF RenderKey \notin cr THEN Sent(Raised("ValueError", NoJob, 0), NoTimeline)
    ELSE IF image_urls = <<>> THEN Sent(Returned(NoJob, 0), NoTimeline)
    ELSE Submit(sneaker_name, image_urls, reply)

----------------------------------------------------------------------------
\* Render status.

ProviderStates == {"submitted", "queued", "rendering", "done", "failed"}

NoneUrl == [host |-> "None", id |-> NoJob]
RenderedUrl(j) == [host |-> "shotstack", id |-> j]
HostedUrl(u) == [host |-> "cloudinary", id |-> u.id]

NoStatus == [status |-> "", url |-> NoneUrl]

\* The provider's answer to a status request for job j: "status" carries the
\* job's state and, when done, the rendered asset's URL.
StatusAnswers(j) ==
    { [net |-> n, code |-> 0, body |-> "none", status |-> "", url |-> NoneUrl]
        : n \in {"ConnectionError", "Timeout"} }
    \cup { [net |-> "ok", code |-> c, body |-> "none", status |-> "", url |-> NoneUrl]
        : c \in {404, 500} }
    \cup { [net |-> "ok", code |-> 200, body |-> b, status |-> "", url |-> NoneUrl]
        : b \in {"not_json", "no_response"} }
    \cup ( IF jobs[j] \notin ProviderStates THEN {}
           ELSE { [net |-> "ok", code |-> 200, body |-> "status", status |-> jobs[j],
                   url |-> IF jobs[j] = "done" THEN RenderedUrl(j) ELSE NoneUrl] } )

\* response.json()["response"]
StatusBodyError(answer) ==
    CASE answer.body = "not_json" -> "requests.JSONDecodeError"
      [] answer.body = "no_response" -> "KeyError"
      [] OTHER -> "none"

StatusTry(answer) ==
    LET e1 == HttpError(answer)
    IN  IF e1 # "none" THEN e1 ELSE StatusBodyError(answer)

FailedStatus == [status |-> "failed", url |-> NoneUrl]

\* Mutant: a failed request is reported as still rendering.
get_render_status_fail_open(cr, render_id, answer) ==
    IF RenderKey \notin cr THEN Raised("ValueError", NoStatus, 0)
    ELSE LET e == StatusTry(answer)
         IN  IF e = "none" THEN Returned([status |-> answer.status, url |-> answer.url], 1)
             ELSE IF e \in RequestException
             THEN Returned([status |-> "rendering", url |-> NoneUrl], 1)
             ELSE Raised(e, NoStatus, 1)

get_render_status(cr, render_id, answer) ==
    IF RenderKey \notin cr THEN Raised("ValueError", NoStatus, 0)
    ELSE LET e == StatusTry(answer)
         IN  IF e = "none" THEN Returned([status |-> answer.status, url |-> answer.url], 1)
             ELSE IF e \in RequestException THEN Returned(FailedStatus, 1)
             ELSE Raised(e, NoStatus, 1)

----------------------------------------------------------------------------
\* 4. Hosting upload.

\* The public_id sent with the upload (name and time) decides nothing here.
\* cloudinary.uploader.upload raises ("error"), or returns a result with
\* ("uploaded") or without ("no_secure_url") a 'secure_url'.
HostReplies == {"error", "uploaded", "no_secure_url"}

\* Mutant: the uploader's exception is not caught.
upload_to_cloudinary_uncaught(cr, video_url, sneaker_name, host) ==
    IF ~(HostingKeys \subseteq cr) THEN Raised("ValueError", NoneUrl, 0)
    ELSE IF host = "uploaded" THEN Returned(HostedUrl(video_url), 1)
    ELSE IF host = "error" THEN Raised("Exception", NoneUrl, 1)
    ELSE Returned(NoneUrl, 1)

upload_to_cloudinary(cr, video_url, sneaker_name, host) ==
    IF ~(HostingKeys \subseteq cr) THEN Raised("ValueError", NoneUrl, 0)
    ELSE IF host = "uploaded" THEN Returned(HostedUrl(video_url), 1)
    ELSE Returned(NoneUrl, 1)

----------------------------------------------------------------------------
\* GET /status/{jobId}: the poll, the collapse of the provider's states to
\* rendering | done | failed, and on done the upload with its fallback to
\* the rendered URL.

Truthy(u) == u.host \notin {"None", ""}

ClientStatus(s) ==
    IF s = "done" THEN "done" ELSE IF s = "failed" THEN "failed" ELSE "rendering"

Polled(r, n, host) == [outcome |-> r.outcome, exc |-> r.exc, value |-> r.value,
                       calls |-> r.calls, upload_calls |-> n, host |-> host]

status(cr, render_id, answer, host) ==
    LET g == get_render_status(cr, render_id, answer)
    IN  IF g.outcome = "raised" THEN Polled(g, 0, "none")
        ELSE IF g.value.status = "done"
        THEN LET u == upload_to_cloudinary(cr, g.value.url, "render", host)
                 url == IF Truthy(u.value) THEN u.value ELSE g.value.url
             IN  IF u.outcome = "raised"
                 THEN Polled(Raised(u.exc, NoStatus, g.calls), u.calls,
                             IF u.calls = 0 THEN "none" ELSE host)
                 ELSE Polled(Returned([status |-> "done", url |-> url], g.calls), u.calls, host)
        ELSE Polled(Returned([status |-> ClientStatus(g.value.status), url |-> NoneUrl], g.calls),
                    0, "none")

----------------------------------------------------------------------------
\* The state machine.  The server keeps nothing between two requests: an
\* operation starts from Idle and Respond returns to it.

Idle == [op |-> "none"]

Init ==
    /\ creds \in SUBSET Credentials
    /\ jobs = [j \in JobIds |-> "unissued"]
    /\ uploads = [j \in JobIds |-> 0]
    /\ doneSeen = [j \in JobIds |-> FALSE]
    /\ last = Idle

SearchImages ==
    /\ last = Idle
    /\ \E name \in Names, reply \in SearchReplies :
        /\ last' = [op |-> "search_images", name |-> name, reply |-> reply,
                    result |-> search_images(creds, name, reply)]
        /\ UNCHANGED <<creds, jobs, uploads, doneSeen>>

GenerateTextForPlatform ==
    /\ last = Idle
    /\ \E name \in Names, p \in Channels, reply \in TextReplies :
        /\ last' = [op |-> "generate_text_for_platform", name |-> name, platform |-> p,
                    reply |-> reply,
                    result |-> generate_text_for_platform(creds, name, p, reply)]
        /\ UNCHANGED <<creds, jobs, uploads, doneSeen>>

GenerateAllTexts ==
    /\ last = Idle
    /\ \E name \in Names, ps \in ChannelLists :
        \E replies \in [1..Len(ps) -> TextReplies] :
            /\ last' = [op |-> "generate_all_texts", name |-> name, platforms |-> ps,
                        replies |-> replies,
                        result |-> generate_all_texts(creds, name, ps, replies)]
            /\ UNCHANGED <<creds, jobs, uploads, doneSeen>>

\* The ids the provider can issue next: the lowest one not yet issued.
Unissued == {j \in JobIds : jobs[j] = "unissued" /\ \A k \in 1..(j - 1) : jobs[k] # "unissued"}

CreateVideo ==
    /\ last = Idle
    /\ \E name \in Names, urls \in ImageLists, reply \in RenderReplies(Unissued) :
        LET r == create_video(creds, name, urls, reply)
        IN  /\ last' = [op |-> "create_video", name |-> name, image_urls |-> urls,
                        reply |-> IF r.calls = 0 THEN NoReply ELSE reply, result |-> r]
            /\ jobs' = IF r.calls = 1 /\ reply.body = "job"
                       THEN [jobs EXCEPT ![reply.id] = "submitted"] ELSE jobs
            /\ UNCHANGED <<creds, uploads, doneSeen>>

\* The render provider works on a job.
ProviderStep ==
    /\ last = Idle
    /\ \E j \in JobIds :
        /\ jobs[j] \in {"submitted", "queued", "rendering"}
        /\ \E s \in {"queued", "rendering", "done", "failed"} :
            /\ \/ s = "failed"
               \/ jobs[j] = "submitted" /\ s = "queued"
               \/ jobs[j] = "queued" /\ s = "rendering"
               \/ jobs[j] = "rendering" /\ s = "done"
            /\ jobs' = [jobs EXCEPT ![j] = s]
    /\ UNCHANGED <<creds, uploads, doneSeen, last>>

GetRenderStatus ==
    /\ last = Idle
    /\ \E j \in JobIds : \E answer \in StatusAnswers(j) :
        /\ last' = [op |-> "get_render_status", render_id |-> j, answer |-> answer,
                    result |-> get_render_status(creds, j, answer)]
        /\ UNCHANGED <<creds, jobs, uploads, doneSeen>>

UploadToCloudinary ==
    /\ last = Idle
    /\ \E j \in JobIds, name \in Names, host \in HostReplies :
        LET r == upload_to_cloudinary(creds, RenderedUrl(j), name, host)
        IN  /\ jobs[j] = "done"
            /\ uploads[j] + r.calls <= MaxUploads
            /\ last' = [op |-> "upload_to_cloudinary", video_url |-> RenderedUrl(j),
                        name |-> name, host |-> IF r.calls = 0 THEN "none" ELSE host,
                        result |-> r]
            /\ uploads' = [uploads EXCEPT ![j] = @ + r.calls]
            /\ UNCHANGED <<creds, jobs, doneSeen>>

Status ==
    /\ last = Idle
    /\ \E j \in JobIds : \E answer \in StatusAnswers(j), host \in HostReplies :
        LET r == status(creds, j, answer, host)
        IN  /\ uploads[j] + r.upload_calls <= MaxUploads
            /\ last' = [op |-> "status", render_id |-> j, answer |-> answer, result |-> r]
            /\ uploads' = [uploads EXCEPT ![j] = @ + r.upload_calls]
            /\ doneSeen' = [doneSeen EXCEPT ![j] = @ \/ (r.outcome = "returned" /\ r.value.status = "done")]
            /\ UNCHANGED <<creds, jobs>>

Respond ==
    /\ last # Idle
    /\ last' = Idle
    /\ UNCHANGED <<creds, jobs, uploads, doneSeen>>

NextText == GenerateTextForPlatform \/ GenerateAllTexts \/ Respond
NextRender == CreateVideo \/ ProviderStep \/ Status \/ Respond
NextCalls == SearchImages \/ GenerateTextForPlatform \/ CreateVideo \/ ProviderStep
             \/ GetRenderStatus \/ UploadToCloudinary \/ Respond
Next == SearchImages \/ GenerateTextForPlatform \/ GenerateAllTexts \/ CreateVideo
        \/ ProviderStep \/ GetRenderStatus \/ UploadToCloudinary \/ Status \/ Respond

SpecText == Init /\ [][NextText]_vars
SpecRender == Init /\ [][NextRender]_vars
SpecCalls == Init /\ [][NextCalls]_vars
Spec == Init /\ [][Next]_vars

----------------------------------------------------------------------------
\* Properties.

IsOp(name) == last.op = name

\* C1: with the text credential configured, generate_all_texts returns
\* exactly one entry per requested channel, the i-th being what the i-th
\* call produced for the i-th channel, whatever the provider's replies are.
C1_OneEntryPerChannel ==
    (IsOp("generate_all_texts") /\ TextKey \in creds) =>
        /\ last.result.outcome = "returned"
        /\ Len(last.result.value) = Len(last.platforms)
        /\ \A i \in 1..Len(last.platforms) :
            last.result.value[i] =
                generate_text_for_platform(creds, last.name, last.platforms[i],
                                           last.replies[i]).value

\* The replies that are a failure of the call or cannot be parsed as a JSON
\* object.
TextReplyUnusable(reply) ==
    \/ HttpError(reply) # "none"
    \/ reply.body # "chat"
    \/ reply.text # "json_object"

\* C2: with the text credential configured, generate_text_for_platform never
\* raises, and returns the error-marker entry of the requested channel
\* whenever the call fails or the reply cannot be parsed.
C2_TextNeverRaises ==
    (IsOp("generate_text_for_platform") /\ TextKey \in creds) =>
        /\ last.result.outcome = "returned"
        /\ TextReplyUnusable(last.reply) => last.result.value = Fallback(last.platform)

\* C3: every entry generate_text_for_platform returns carries the requested
\* channel as its platform; after a successful parse its locale variants are
\* those of the reply.
C3_PlatformIsRequested ==
    (IsOp("generate_text_for_platform") /\ last.result.outcome = "returned") =>
        /\ last.result.value.platform = last.platform
        /\ ~TextReplyUnusable(last.reply) => last.result.value.locales = last.reply.object.locales

\* C4 as stated: create_video with an empty image list returns null and
\* calls nobody, in every configuration state.
C4_EmptyAlwaysNull ==
    (IsOp("create_video") /\ last.image_urls = <<>>) =>
        /\ last.result.outcome = "returned"
        /\ last.result.value = NoJob
        /\ last.result.calls = 0

\* C4 as amended: create_video with an empty image list never calls the
\* render provider; it returns null when the render credential is
\* configured and raises the configuration error when it is not.
C4_EmptyNoCall ==
    (IsOp("create_video") /\ last.image_urls = <<>>) =>
        /\ last.result.calls = 0
        /\ last.result.sent = NoTimeline
        /\ IF RenderKey \in creds
           THEN last.result.outcome = "returned" /\ last.result.value = NoJob
           ELSE last.result.outcome = "raised" /\ last.result.exc = "ValueError"

\* C4 witness: an empty image list, credential configured, null returned.
C4_Witness ==
    /\ IsOp("create_video") /\ last.image_urls = <<>> /\ RenderKey \in creds
    /\ last.result.outcome = "returned" /\ last.result.value = NoJob

\* C5: over the status polls of a job, the upload is triggered exactly once
\* per completed job: a poll that does not observe done triggers none, and
\* once done was observed no further upload is triggered.
C5_UploadOncePerJob ==
    /\ IsOp("status") /\ last.answer.status # "done" => last.result.upload_calls = 0
    /\ \A j \in JobIds : uploads[j] = IF doneSeen[j] THEN 1 ELSE 0

\* The provider's answers the mapping is about: a state, or a failed request.
AnswerFailed(a) == HttpError(a) # "none" \/ a.body = "not_json"
AnswerState(a) == HttpError(a) = "none" /\ a.body = "status"

C8_CreateVideoNeverRaises ==
    (IsOp("create_video") /\ RenderKey \in creds /\ last.image_urls # <<>>) =>
        /\ last.result.outcome = "returned"
        /\ last.result.value = IF last.reply.body = "job" THEN last.reply.id ELSE NoJob

FailsFast(r) == r.outcome = "raised" /\ r.exc = "ValueError" /\ r.calls = 0

\* C9: each of the five functions, when its credential is absent, raises the
\* configuration error before any call to its collaborator, and returns
\* nothing.
C9_MissingCredentialFailsFast ==
    /\ (IsOp("search_images") /\ SearchKey \notin creds) => FailsFast(last.result)
    /\ (IsOp("generate_text_for_platform") /\ TextKey \notin creds) => FailsFast(last.result)
    /\ (IsOp("create_video") /\ RenderKey \notin creds) => FailsFast(last.result)
    /\ (IsOp("get_render_status") /\ RenderKey \notin creds) => FailsFast(last.result)
    /\ (IsOp("upload_to_cloudinary") /\ ~(HostingKeys \subseteq creds)) => FailsFast(last.result)
    /\ \A j \in JobIds :
        /\ RenderKey \notin creds => jobs[j] = "unissued"
        /\ ~(HostingKeys \subseteq creds) => uploads[j] = 0

\* C9 witness: create_video without its credential, empty image list, raised.
C9_Witness ==
    /\ IsOp("create_video") /\ RenderKey \notin creds /\ last.image_urls = <<>>
    /\ last.result.outcome = "raised"

\* The end of the timeline: the latest end of any clip of either track.
Max(a, b) == IF a >= b THEN a ELSE b
RECURSIVE LatestEnd(_)
LatestEnd(clips) ==
    IF clips = <<>> THEN 0
    ELSE Max(Head(clips).start + Head(clips).length, LatestEnd(Tail(clips)))
TotalLength(t) == Max(LatestEnd(t.clips), LatestEnd(t.titles))

\* The image track of a submitted timeline: one clip per image in input
\* order, clip i starting at i times the clip length, no two overlapping.
ImageTrackOk(urls, t) ==
    /\ Len(t.clips) = Len(urls)
    /\ \A i \in 1..Len(urls) :
        /\ t.clips[i].src = urls[i]
        /\ t.clips[i].start = (i - 1) * ClipLength * TicksPerUnit
        /\ t.clips[i].length = ClipLength * TicksPerUnit
    /\ \A i, k \in 1..Len(urls) :
        i < k => t.clips[i].start + t.clips[i].length <= t.clips[k].start

Submitted == IsOp("create_video") /\ last.result.calls = 1

\* C10 as stated: the submitted timeline has one clip per image as above and
\* its total length, title included, is n times the clip length.
C10_TotalIsCountTimesLength ==
    Submitted =>
        /\ ImageTrackOk(last.image_urls, last.result.sent)
        /\ TotalLength(last.result.sent) = Len(last.image_urls) * ClipLength * TicksPerUnit

\* C10 as amended: the submitted timeline has one clip per image as above;
\* the image track ends at n times the clip length, and the total length,
\* title included, is the later of that and the title's end (3.5).
C10_Timeline ==
    Submitted =>
        LET t == last.result.sent
            n == Len(last.image_urls)
        IN  /\ ImageTrackOk(last.image_urls, t)
            /\ LatestEnd(t.clips) = n * ClipLength * TicksPerUnit
            /\ TotalLength(t) = Max(n * ClipLength * TicksPerUnit,
                                    TitleStartTicks + TitleLength * TicksPerUnit)
            /\ n >= 2 => TotalLength(t) = n * ClipLength * TicksPerUnit

\* C10 witness: a timeline of two or more clips was submitted.
C10_Witness ==
    /\ Submitted /\ Len(last.image_urls) >= 2
    /\ Len(last.result.sent.clips) = Len(last.image_urls)
    /\ last.result.sent.clips[2].start = ClipLength * TicksPerUnit

====
